---- MODULE Spec2Model ----
(***************************************************************************)
(* Model of the poster creator (PosterCreator component, three revisions): *)
(*   "guides"   src/unnamed/part_000:76-264   captions, crop marks         *)
(*   "centered" src/unnamed/part_000:582-729  minimal margin, centred      *)
(*   "first"    src/unnamed/part_001:22-148   fixed A4 page                *)
(* The React state fields are the variables; every handler is one action;  *)
(* the two awaits (image decode of an upload, image load inside            *)
(* generatePreview) split their handlers into a start and a resume step.   *)
(* Lengths are exact rationals <<numerator, denominator>> in lowest terms  *)
(* with a positive denominator, where the code computes in doubles.        *)
(***************************************************************************)
EXTENDS Integers, Sequences, FiniteSets, TLC

VARIABLES
    variant,          \* which revision of the component is running
    imageData,        \* useState<ImageData | null>
    gridConfig,       \* useState<GridConfig>
    previewData,      \* useState<string[]>: the tile list
    selectedPreview,  \* useState<number | null>
    paperFormat,      \* useState<PaperFormat>
    orientation,      \* useState<Orientation>
    showGuideLines,   \* useState(true)
    decoding,         \* uploads whose decode has not finished yet
    loading,          \* generatePreview invocations suspended at their await
    toast,            \* notification issued by the last step
    pdf               \* document saved by the last step

vars == <<variant, imageData, gridConfig, previewData, selectedPreview,
          paperFormat, orientation, showGuideLines, decoding, loading,
          toast, pdf>>

NULL == [null |-> TRUE]

\* ------------------------------------------------------------ bounds
\* In-flight asynchronous operations (pending decodes plus suspended previews).
MaxInFlight == 1
\* The same, where uploads and previews race each other.
MaxRace == 2
\* Tiles of the preview grid the user clicks: those with index 0..MaxSelect.
MaxSelect == 1
\* Columns and rows of the grids one whole cycle is checked for.
MaxGrid == 2

\* ------------------------------------------------------------ rationals
Abs(n) == IF n < 0 THEN -n ELSE n

RECURSIVE Gcd(_, _)
Gcd(a, b) == IF b = 0 THEN a ELSE Gcd(b, a % b)

\* n/d in lowest terms with a positive denominator (d # 0)
Rat(n, d) ==
    LET g == Gcd(Abs(n), Abs(d))
        s == IF d < 0 THEN -1 ELSE 1
    IN  <<(s * n) \div g, (s * d) \div g>>

RInt(n) == <<n, 1>>
RAdd(a, b) == Rat(a[1] * b[2] + b[1] * a[2], a[2] * b[2])
RSub(a, b) == Rat(a[1] * b[2] - b[1] * a[2], a[2] * b[2])
RMul(a, b) == Rat(a[1] * b[1], a[2] * b[2])
RDiv(a, b) == Rat(a[1] * b[2], a[2] * b[1])
RLt(a, b) == a[1] * b[2] < b[1] * a[2]
RLe(a, b) == a[1] * b[2] <= b[1] * a[2]
RGt(a, b) == RLt(b, a)
\* Math.floor / the truncation of a non-negative length to an unsigned long
RFloor(a) == a[1] \div a[2]

\* ------------------------------------------------------------ inputs
\* Files the user can pick. `decodes` tells whether the browser fires onload.
Files ==
    { [name |-> "a.png",  type |-> "image/png",  width |-> 1000, height |-> 500, decodes |-> TRUE],
      [name |-> "b.jpg",  type |-> "image/jpeg", width |-> 1001, height |-> 500, decodes |-> TRUE],
      [name |-> "c.gif",  type |-> "image/gif",  width |-> 1000, height |-> 500, decodes |-> TRUE],
      [name |-> "d.webp", type |-> "image/webp", width |-> 1000, height |-> 500, decodes |-> FALSE] }

\* Texts a number input can hand to onChange (e.target.value), as characters.
GridTexts ==
    { <<>>, <<"0">>, <<"1">>, <<"2">>, <<"-", "2">>, <<"2", ".", "5">> }

\* Paper formats the user picks in the select
FormatChoices == {"a4", "a3"}

\* Decoded images one whole cycle is checked for: the two of the scenarios,
\* images whose whole-image ratio meets a page's drawable ratio exactly, and
\* degenerate (very wide, very tall, tiny) ones.
CycleImages ==
    { [file |-> "a.png",    width |-> 1000, height |-> 500],
      [file |-> "b.jpg",    width |-> 1001, height |-> 500],
      [file |-> "e.png",    width |-> 90,   height |-> 121],
      [file |-> "f.png",    width |-> 200,  height |-> 287],
      [file |-> "g.png",    width |-> 190,  height |-> 257],
      [file |-> "wide.png", width |-> 3000, height |-> 10],
      [file |-> "tall.png", width |-> 10,   height |-> 3000],
      [file |-> "tiny.png", width |-> 1,    height |-> 2] }

AllowedTypes == {"image/jpeg", "image/png", "image/webp"}

PAPER_FORMATS ==
    [ a4      |-> [width |-> 210, height |-> 297, name |-> "A4"],
      letter  |-> [width |-> 216, height |-> 279, name |-> "Carta (Letter)"],
      a3      |-> [width |-> 297, height |-> 420, name |-> "A3"],
      tabloid |-> [width |-> 279, height |-> 432, name |-> "Tabloid"] ]

PaperFormat == DOMAIN PAPER_FORMATS
Orientation == {"portrait", "landscape"}
Variants == {"first", "centered", "guides"}

\* ------------------------------------------------------------ parseInt
DigitValue ==
    [c \in {"0", "1", "2", "3", "4", "5", "6", "7", "8", "9"} |->
        CASE c = "0" -> 0 [] c = "1" -> 1 [] c = "2" -> 2 [] c = "3" -> 3
          [] c = "4" -> 4 [] c = "5" -> 5 [] c = "6" -> 6 [] c = "7" -> 7
          [] c = "8" -> 8 [] c = "9" -> 9]

\* the leading decimal digits of s from position i on: <<value, digits read>>
RECURSIVE LeadingDigits(_, _, _, _)
LeadingDigits(s, i, acc, n) ==
    IF i <= Len(s) /\ s[i] \in DOMAIN DigitValue
    THEN LeadingDigits(s, i + 1, acc * 10 + DigitValue[s[i]], n + 1)
    ELSE <<acc, n>>

\* parseInt(text): an optional sign, then digits up to the first other
\* character; NaN when no digit is read.
parseInt(text) ==
    LET neg == Len(text) > 0 /\ text[1] = "-"
        d   == LeadingDigits(text, IF neg THEN 2 ELSE 1, 0, 0)
    IN  IF d[2] = 0 THEN [nan |-> TRUE, value |-> 0]
        ELSE [nan |-> FALSE, value |-> IF neg THEN -d[1] ELSE d[1]]

\* parseInt(e.target.value) || 1 : NaN and 0 are falsy
GridValue(text) ==
    LET p == parseInt(text)
    IN  IF p.nan \/ p.value = 0 THEN 1 ELSE p.value

\* ------------------------------------------------------------ generatePreview
\* Piece with the crop origin stepped by the truncated (canvas) piece size
PieceIntegerStep(image, pieceWidth, pieceHeight, col, row) ==
    [ image  |-> image,
      col    |-> col,
      row    |-> row,
      sx     |-> RInt(col * RFloor(pieceWidth)),
      sy     |-> RInt(row * RFloor(pieceHeight)),
      sw     |-> pieceWidth,
      sh     |-> pieceHeight,
      width  |-> RFloor(pieceWidth),
      height |-> RFloor(pieceHeight) ]

\* Piece whose raster is one pixel larger than the truncated piece size
PieceRoundsUp(image, pieceWidth, pieceHeight, col, row) ==
    [ image  |-> image,
      col    |-> col,
      row    |-> row,
      sx     |-> RMul(RInt(col), pieceWidth),
      sy     |-> RMul(RInt(row), pieceHeight),
      sw     |-> pieceWidth,
      sh     |-> pieceHeight,
      width  |-> RFloor(pieceWidth) + 1,
      height |-> RFloor(pieceHeight) + 1 ]

\* One piece: the crop drawImage takes from the source, and the raster the
\* shared canvas renders it into (canvas.width/height are unsigned longs, so
\* the real-valued piece size is truncated once, before the loops).
Piece(image, pieceWidth, pieceHeight, col, row) ==
    [ image  |-> image,
      col    |-> col,
      row    |-> row,
      sx     |-> RMul(RInt(col), pieceWidth),
      sy     |-> RMul(RInt(row), pieceHeight),
      sw     |-> pieceWidth,
      sh     |-> pieceHeight,
      width  |-> RFloor(pieceWidth),
      height |-> RFloor(pieceHeight) ]

\* for (row...) for (col...) pieces.push(...), from (row, col) on
RECURSIVE Pieces(_, _, _, _, _)
Pieces(image, totalCols, totalRows, row, col) ==
    LET pieceWidth  == Rat(image.width, totalCols)
        pieceHeight == Rat(image.height, totalRows)
    IN  IF ~(row < totalRows) THEN <<>>
        ELSE IF ~(col < totalCols)
             THEN Pieces(image, totalCols, totalRows, row + 1, 0)
             ELSE <<Piece(image, pieceWidth, pieceHeight, col, row)>>
                  \o Pieces(image, totalCols, totalRows, row, col + 1)

\* Partition with the column count used as the bound of both loops
PartitionColsTwice(image, grid) ==
    Pieces(image, grid.horizontal, grid.horizontal, 0, 0)

\* the tile list generatePreview stores for the image and grid it captured
Partition(image, grid) ==
    Pieces(image, grid.horizontal, grid.vertical, 0, 0)

\* ------------------------------------------------------------ generatePDF
\* i % n and Math.floor(i / n) for i >= 0 and n # 0, as JavaScript computes
\* them (the remainder takes the sign of the dividend)
JsRem(i, n) == i % Abs(n)
JsFloorDiv(i, n) ==
    IF n > 0 THEN i \div n ELSE -((i + Abs(n) - 1) \div Abs(n))

\* the page of the preview grid: orientation === 'portrait' ? width : height
PreviewPage(format, orient) ==
    LET paperConfig == PAPER_FORMATS[format]
    IN  [ width  |-> IF orient = "portrait" THEN paperConfig.width
                     ELSE paperConfig.height,
          height |-> IF orient = "portrait" THEN paperConfig.height
                     ELSE paperConfig.width ]

\* PageSize that ignores the orientation
PageSizeAsCataloged(v, format, orient) ==
    IF v = "first" THEN [width |-> 210, height |-> 297]
    ELSE [width |-> PAPER_FORMATS[format].width,
          height |-> PAPER_FORMATS[format].height]

\* pdf.internal.pageSize: the first revision builds `new jsPDF()` (A4
\* portrait, in mm); the later ones pass format [width, height] and the
\* orientation, and jsPDF swaps the pair when it contradicts the orientation.
PageSize(v, format, orient) ==
    LET paperConfig == PAPER_FORMATS[format]
        swap == IF orient = "landscape"
                THEN paperConfig.height > paperConfig.width
                ELSE paperConfig.width > paperConfig.height
    IN  IF v = "first" THEN [width |-> 210, height |-> 297]
        ELSE IF swap THEN [width |-> paperConfig.height, height |-> paperConfig.width]
        ELSE [width |-> paperConfig.width, height |-> paperConfig.height]

\* Margin of 10 mm in every revision
MarginTen(v) == 10

\* const margin
Margin(v) ==
    CASE v = "guides" -> 15 [] v = "centered" -> 5 [] v = "first" -> 10

\* the height the height-constrained branch gives the image
HeightBudget(v, maxHeight) ==
    CASE v = "guides"   -> maxHeight - 25
      [] v = "centered" -> maxHeight
      [] v = "first"    -> maxHeight - 20

\* the height whose ratio to maxWidth the branch condition compares with
ConditionHeight(v, maxHeight) ==
    CASE v = "guides"   -> maxHeight - 25
      [] v = "centered" -> maxHeight
      [] v = "first"    -> maxHeight

\* imageData!.width / gridConfig.horizontal / (imageData!.height / gridConfig.vertical)
AspectRatio(image, grid) ==
    RDiv(Rat(image.width, grid.horizontal), Rat(image.height, grid.vertical))

\* ScaleToFit whose height-constrained branch forgets the space reserved for
\* the captions
ScaleToFitNoReserve(v, aspectRatio, maxWidth, maxHeight) ==
    IF RGt(aspectRatio, Rat(maxWidth, ConditionHeight(v, maxHeight)))
    THEN [ imgWidth  |-> RInt(maxWidth),
           imgHeight |-> RDiv(RInt(maxWidth), aspectRatio),
           branch    |-> "width" ]
    ELSE [ imgWidth  |-> RMul(RInt(maxHeight), aspectRatio),
           imgHeight |-> RInt(maxHeight),
           branch    |-> "height" ]

\* ScaleToFit whose width-constrained branch multiplies by the aspect ratio
ScaleToFitMultiplies(v, aspectRatio, maxWidth, maxHeight) ==
    IF RGt(aspectRatio, Rat(maxWidth, ConditionHeight(v, maxHeight)))
    THEN [ imgWidth  |-> RInt(maxWidth),
           imgHeight |-> RMul(RInt(maxWidth), aspectRatio),
           branch    |-> "width" ]
    ELSE [ imgWidth  |-> RMul(RInt(HeightBudget(v, maxHeight)), aspectRatio),
           imgHeight |-> RInt(HeightBudget(v, maxHeight)),
           branch    |-> "height" ]

\* if (aspectRatio > maxWidth / h) {...} else {...}
ScaleToFit(v, aspectRatio, maxWidth, maxHeight) ==
    IF RGt(aspectRatio, Rat(maxWidth, ConditionHeight(v, maxHeight)))
    THEN [ imgWidth  |-> RInt(maxWidth),
           imgHeight |-> RDiv(RInt(maxWidth), aspectRatio),
           branch    |-> "width" ]
    ELSE [ imgWidth  |-> RMul(RInt(HeightBudget(v, maxHeight)), aspectRatio),
           imgHeight |-> RInt(HeightBudget(v, maxHeight)),
           branch    |-> "height" ]

\* ImageX that right-aligns the image
ImageXNotHalved(pageWidth, imgWidth) == RSub(RInt(pageWidth), imgWidth)

\* const x = (pageWidth - imgWidth) / 2
ImageX(pageWidth, imgWidth) == RDiv(RSub(RInt(pageWidth), imgWidth), RInt(2))

\* const y: centred in the centered revision, below the header otherwise
ImageY(v, pageHeight, imgHeight) ==
    CASE v = "guides"   -> RInt(Margin(v) + 15)
      [] v = "centered" -> RDiv(RSub(RInt(pageHeight), imgHeight), RInt(2))
      [] v = "first"    -> RInt(Margin(v) + 20)

\* the caption texts of page i (0-based), as their interpolated values
Caption(v, i, total, grid, format, orient) ==
    LET col == JsRem(i, grid.horizontal)
        row == JsFloorDiv(i, grid.horizontal)
    IN  CASE v = "first"    -> [page |-> i + 1, total |-> total]
          [] v = "centered" -> [page |-> i + 1, total |-> total,
                                col |-> col + 1, row |-> row + 1]
          [] v = "guides"   -> [page |-> i + 1, total |-> total,
                                col |-> col + 1, row |-> row + 1,
                                paper |-> PAPER_FORMATS[format].name,
                                label |-> IF orient = "portrait"
                                          THEN "Retrato" ELSE "Paisagem"]

\* a length plus n millimetres
RPlus(a, n) == RAdd(a, RInt(n))

\* a straight line pdf.line(x1, y1, x2, y2)
Line(x1, y1, x2, y2) == [x1 |-> x1, y1 |-> y1, x2 |-> x2, y2 |-> y2]

\* what is drawn around the image: the border pdf.rect(x, y, w, h), the
\* corner crop marks and the centre lines. The captioned revision draws them
\* when showGuideLines is set; the first revision always draws a border and
\* nothing else; the centered one draws nothing.
GuideLines(v, show, pageWidth, pageHeight, x, y, imgWidth, imgHeight) ==
    LET right  == RAdd(x, imgWidth)
        bottom == RAdd(y, imgHeight)
    IN  CASE v = "guides" /\ show ->
               [ rect   |-> [x |-> RPlus(x, -3), y |-> RPlus(y, -3),
                             w |-> RPlus(imgWidth, 6), h |-> RPlus(imgHeight, 6)],
                 marks  |-> << Line(RPlus(x, -8), RPlus(y, -3), RPlus(x, -3), RPlus(y, -3)),
                               Line(RPlus(x, -3), RPlus(y, -8), RPlus(x, -3), RPlus(y, -3)),
                               Line(RPlus(right, 3), RPlus(y, -8), RPlus(right, 3), RPlus(y, -3)),
                               Line(RPlus(right, 3), RPlus(y, -3), RPlus(right, 8), RPlus(y, -3)),
                               Line(RPlus(x, -8), RPlus(bottom, 3), RPlus(x, -3), RPlus(bottom, 3)),
                               Line(RPlus(x, -3), RPlus(bottom, 3), RPlus(x, -3), RPlus(bottom, 8)),
                               Line(RPlus(right, 3), RPlus(bottom, 3), RPlus(right, 8), RPlus(bottom, 3)),
                               Line(RPlus(right, 3), RPlus(bottom, 8), RPlus(right, 3), RPlus(bottom, 3)) >>,
                 centre |-> << Line(Rat(pageWidth, 2), RPlus(y, -5), Rat(pageWidth, 2), RPlus(bottom, 5)),
                               Line(RPlus(x, -5), Rat(pageHeight, 2), RPlus(right, 5), Rat(pageHeight, 2)) >> ]
          [] v = "first" ->
               [ rect   |-> [x |-> RPlus(x, -2), y |-> RPlus(y, -2),
                             w |-> RPlus(imgWidth, 4), h |-> RPlus(imgHeight, 4)],
                 marks  |-> <<>>,
                 centre |-> <<>> ]
          [] OTHER -> NULL

\* AddPage that starts a new sheet before the first tile too
AddPageAlways(i, sheets) == sheets + 1

\* if (i > 0) pdf.addPage(): the number of sheets of the document afterwards
AddPage(i, sheets) == IF i > 0 THEN sheets + 1 ELSE sheets

\* the sheet iteration i draws on: the constructor creates sheet 1, addPage
\* appends a sheet and makes it the current one
RECURSIVE SheetOf(_)
SheetOf(i) == IF i = 0 THEN AddPage(0, 1) ELSE AddPage(i, SheetOf(i - 1))

\* one iteration of the page loop: what is drawn on page i (0-based)
LayoutPage(v, i, tiles, image, grid, format, orient, show) ==
    LET size      == PageSize(v, format, orient)
        maxWidth  == size.width - 2 * Margin(v)
        maxHeight == size.height - 2 * Margin(v)
        ar        == AspectRatio(image, grid)
        fit       == ScaleToFit(v, ar, maxWidth, maxHeight)
    IN  [ index       |-> i,
          newPage     |-> AddPage(i, 0) = 1,
          sheet       |-> SheetOf(i),
          tile        |-> tiles[i + 1],
          caption     |-> Caption(v, i, Len(tiles), grid, format, orient),
          pageWidth   |-> size.width,
          pageHeight  |-> size.height,
          maxWidth    |-> maxWidth,
          budget      |-> HeightBudget(v, maxHeight),
          aspectRatio |-> ar,
          branch      |-> fit.branch,
          imgWidth    |-> fit.imgWidth,
          imgHeight   |-> fit.imgHeight,
          x           |-> ImageX(size.width, fit.imgWidth),
          y           |-> ImageY(v, size.height, fit.imgHeight),
          guides      |-> GuideLines(v, show, size.width, size.height,
                                     ImageX(size.width, fit.imgWidth),
                                     ImageY(v, size.height, fit.imgHeight),
                                     fit.imgWidth, fit.imgHeight) ]

\* the decimal digits of n >= 0, as characters
RECURSIVE DigitsOf(_)
DigitsOf(n) ==
    LET digit == <<"0", "1", "2", "3", "4", "5", "6", "7", "8", "9">>
    IN  IF n < 10 THEN <<digit[n + 1]>>
        ELSE DigitsOf(n \div 10) \o <<digit[(n % 10) + 1]>>

\* `${n}` for an integer n
NumberText(n) == IF n < 0 THEN <<"-">> \o DigitsOf(-n) ELSE DigitsOf(n)

\* Filename that leaves the orientation out
FilenameNoOrientation(v, grid, format, orient) ==
    <<"poster-">> \o NumberText(grid.horizontal) \o <<"x">>
       \o NumberText(grid.vertical)
       \o (IF v = "first" THEN <<".pdf">> ELSE <<"-", format, ".pdf">>)

\* the name pdf.save is given: the template literal, as the sequence of its
\* literal parts and of the characters of the interpolated numbers
Filename(v, grid, format, orient) ==
    <<"poster-">> \o NumberText(grid.horizontal) \o <<"x">>
       \o NumberText(grid.vertical)
       \o (IF v = "first" THEN <<".pdf">>
           ELSE <<"-", format, "-", orient, ".pdf">>)

\* the document generatePDF assembles from the current state
Document(v, tiles, image, grid, format, orient, show) ==
    [ pages    |-> [k \in 1..Len(tiles) |->
                      LayoutPage(v, k - 1, tiles, image, grid, format, orient, show)],
      sheets   |-> IF Len(tiles) = 0 THEN 1 ELSE SheetOf(Len(tiles) - 1),
      filename |-> Filename(v, grid, format, orient) ]

\* ------------------------------------------------------------ state machine
Init ==
    /\ variant \in Variants
    /\ imageData = NULL
    /\ gridConfig = [horizontal |-> 2, vertical |-> 2]
    /\ previewData = <<>>
    /\ selectedPreview = NULL
    /\ paperFormat = "a4"
    /\ orientation = "portrait"
    /\ showGuideLines = TRUE
    /\ decoding = {}
    /\ loading = {}
    /\ toast = "none"
    /\ pdf = NULL

InFlight == Cardinality(decoding) + Cardinality(loading)

\* handleFileSelect with no file in the event: `if (!file) return`
HandleFileSelectNoFile ==
    /\ toast' = "none"
    /\ pdf' = NULL
    /\ UNCHANGED <<variant, imageData, gridConfig, previewData, selectedPreview,
                   paperFormat, orientation, showGuideLines, decoding, loading>>

\* HandleFileSelect without the type check
HandleFileSelectAnyType(file) ==
    /\ pdf' = NULL
    /\ toast' = "none"
    /\ decoding' = {[d EXCEPT !.superseded = d.superseded \/ file.decodes] :
                        d \in decoding}
                      \cup {[file |-> file, superseded |-> FALSE]}
    /\ UNCHANGED <<variant, imageData, gridConfig, previewData, selectedPreview,
                   paperFormat, orientation, showGuideLines, loading>>

\* handleFileSelect(file): the type check, then the decode is started.
\* `superseded` is a history flag the code has no counterpart of: a later
\* upload, of a file that decodes, was started while this decode was in flight.
HandleFileSelect(file) ==
    /\ pdf' = NULL
    /\ IF file.type \notin AllowedTypes
       THEN /\ toast' = "error: unsupported format"
            /\ UNCHANGED decoding
       ELSE /\ toast' = "none"
            /\ decoding' = {[d EXCEPT !.superseded = d.superseded \/ file.decodes] :
                                d \in decoding}
                              \cup {[file |-> file, superseded |-> FALSE]}
    /\ UNCHANGED <<variant, imageData, gridConfig, previewData, selectedPreview,
                   paperFormat, orientation, showGuideLines, loading>>

\* img.onload of the upload d
ImgOnload(d) ==
    /\ d \in decoding
    /\ d.file.decodes
    /\ decoding' = decoding \ {d}
    /\ imageData' = [file |-> d.file.name, width |-> d.file.width,
                     height |-> d.file.height]
    /\ toast' = "success: image loaded"
    /\ pdf' = NULL
    /\ UNCHANGED <<variant, gridConfig, previewData, selectedPreview,
                   paperFormat, orientation, showGuideLines, loading>>

\* ImgOnerror of a handler that drops the loaded image when a decode fails
ImgOnerrorClearsImage(d) ==
    /\ d \in decoding
    /\ ~d.file.decodes
    /\ decoding' = decoding \ {d}
    /\ imageData' = NULL
    /\ toast' = "none"
    /\ pdf' = NULL
    /\ UNCHANGED <<variant, gridConfig, previewData, selectedPreview,
                   paperFormat, orientation, showGuideLines, loading>>

\* the decode of the upload d fails: no onerror handler is installed
ImgOnerror(d) ==
    /\ d \in decoding
    /\ ~d.file.decodes
    /\ decoding' = decoding \ {d}
    /\ toast' = "none"
    /\ pdf' = NULL
    /\ UNCHANGED <<variant, imageData, gridConfig, previewData, selectedPreview,
                   paperFormat, orientation, showGuideLines, loading>>

\* onChange of the horizontal / vertical number input
OnChangeHorizontal(text) ==
    /\ gridConfig' = [gridConfig EXCEPT !.horizontal = GridValue(text)]
    /\ toast' = "none"
    /\ pdf' = NULL
    /\ UNCHANGED <<variant, imageData, previewData, selectedPreview,
                   paperFormat, orientation, showGuideLines, decoding, loading>>

OnChangeVertical(text) ==
    /\ gridConfig' = [gridConfig EXCEPT !.vertical = GridValue(text)]
    /\ toast' = "none"
    /\ pdf' = NULL
    /\ UNCHANGED <<variant, imageData, previewData, selectedPreview,
                   paperFormat, orientation, showGuideLines, decoding, loading>>

\* generatePreview up to its await: the guard, then the closure is suspended
\* with the imageData and gridConfig of the render it was created in.
\* `superseded` is a history flag the code has no counterpart of: a later
\* generatePreview was invoked while this one was suspended. `stalled` tells
\* that the load this invocation awaits has failed.
GeneratePreview ==
    /\ toast' = "none"
    /\ pdf' = NULL
    /\ IF imageData = NULL
       THEN UNCHANGED loading
       ELSE loading' = {[c EXCEPT !.superseded = TRUE] : c \in loading}
                          \cup {[image |-> imageData, grid |-> gridConfig,
                                  superseded |-> FALSE, stalled |-> FALSE]}
    /\ UNCHANGED <<variant, imageData, gridConfig, previewData, selectedPreview,
                   paperFormat, orientation, showGuideLines, decoding>>

\* the load a suspended generatePreview awaits fails: the promise has no
\* reject path and img.onerror is not set, so the invocation never resumes
ImgLoadError(c) ==
    /\ c \in loading
    /\ ~c.stalled
    /\ loading' = (loading \ {c}) \cup {[c EXCEPT !.stalled = TRUE]}
    /\ toast' = "none"
    /\ pdf' = NULL
    /\ UNCHANGED <<variant, imageData, gridConfig, previewData, selectedPreview,
                   paperFormat, orientation, showGuideLines, decoding>>

\* generatePreview after its await: the partition, setPreviewData, the toast
GeneratePreviewResume(c) ==
    /\ c \in loading
    /\ ~c.stalled
    /\ loading' = loading \ {c}
    /\ previewData' = Partition(c.image, c.grid)
    /\ toast' = "success: preview generated"
    /\ pdf' = NULL
    /\ UNCHANGED <<variant, imageData, gridConfig, selectedPreview,
                   paperFormat, orientation, showGuideLines, decoding>>

\* onClick of a tile of the preview grid
SelectPreview(index) ==
    /\ index \in 0..(Len(previewData) - 1)
    /\ index <= MaxSelect
    /\ selectedPreview' = [index |-> index]
    /\ toast' = "none"
    /\ pdf' = NULL
    /\ UNCHANGED <<variant, imageData, gridConfig, previewData,
                   paperFormat, orientation, showGuideLines, decoding, loading>>

SetPaperFormat(value) ==
    /\ variant # "first"
    /\ paperFormat' = value
    /\ toast' = "none"
    /\ pdf' = NULL
    /\ UNCHANGED <<variant, imageData, gridConfig, previewData, selectedPreview,
                   orientation, showGuideLines, decoding, loading>>

SetOrientation(value) ==
    /\ variant # "first"
    /\ orientation' = value
    /\ toast' = "none"
    /\ pdf' = NULL
    /\ UNCHANGED <<variant, imageData, gridConfig, previewData, selectedPreview,
                   paperFormat, showGuideLines, decoding, loading>>

\* onCheckedChange of the guide-lines switch
SetShowGuideLines ==
    /\ variant = "guides"
    /\ showGuideLines' = ~showGuideLines
    /\ toast' = "none"
    /\ pdf' = NULL
    /\ UNCHANGED <<variant, imageData, gridConfig, previewData, selectedPreview,
                   paperFormat, orientation, decoding, loading>>

\* GeneratePDF without the empty-preview guard
GeneratePDFNoGuard ==
    /\ IF imageData = NULL
       THEN /\ toast' = "none"
            /\ pdf' = NULL
       ELSE /\ toast' = "success: pdf saved"
            /\ pdf' = Document(variant, previewData, imageData, gridConfig,
                               paperFormat, orientation, showGuideLines)
    /\ UNCHANGED <<variant, imageData, gridConfig, previewData, selectedPreview,
                   paperFormat, orientation, showGuideLines, decoding, loading>>

\* GeneratePDF that empties the tile list once the document is saved
GeneratePDFClearsPreview ==
    /\ IF Len(previewData) = 0
       THEN /\ toast' = "error: generate the preview first"
            /\ pdf' = NULL
            /\ UNCHANGED previewData
       ELSE IF imageData = NULL
       THEN /\ toast' = "none"
            /\ pdf' = NULL
            /\ UNCHANGED previewData
       ELSE /\ toast' = "success: pdf saved"
            /\ pdf' = Document(variant, previewData, imageData, gridConfig,
                               paperFormat, orientation, showGuideLines)
            /\ previewData' = <<>>
    /\ UNCHANGED <<variant, imageData, gridConfig, selectedPreview,
                   paperFormat, orientation, showGuideLines, decoding, loading>>

\* generatePDF: the empty-preview guard, the page loop, pdf.save
GeneratePDF ==
    /\ IF Len(previewData) = 0
       THEN /\ toast' = "error: generate the preview first"
            /\ pdf' = NULL
       ELSE IF imageData = NULL
       THEN /\ toast' = "none"
            /\ pdf' = NULL
       ELSE /\ toast' = "success: pdf saved"
            /\ pdf' = Document(variant, previewData, imageData, gridConfig,
                               paperFormat, orientation, showGuideLines)
    /\ UNCHANGED <<variant, imageData, gridConfig, previewData, selectedPreview,
                   paperFormat, orientation, showGuideLines, decoding, loading>>

\* room for one more asynchronous operation, of at most n in flight
Room(n) == InFlight < n

Next ==
    \/ (imageData # NULL => Room(MaxInFlight)) /\ GeneratePreview
    \/ \E c \in loading : GeneratePreviewResume(c)
    \/ \E c \in loading : ImgLoadError(c)
    \/ HandleFileSelectNoFile
    \/ \E file \in Files :
          (file.type \in AllowedTypes => Room(MaxInFlight)) /\ HandleFileSelect(file)
    \/ \E d \in decoding : ImgOnload(d)
    \/ \E d \in decoding : ImgOnerror(d)
    \/ \E text \in GridTexts : OnChangeHorizontal(text)
    \/ \E text \in GridTexts : OnChangeVertical(text)
    \/ \E index \in 0..(Len(previewData) - 1) : SelectPreview(index)
    \/ \E value \in FormatChoices : SetPaperFormat(value)
    \/ \E value \in Orientation : SetOrientation(value)
    \/ SetShowGuideLines
    \/ GeneratePDF

Spec == Init /\ [][Next]_vars

\* ------------------------------------------------------------ one cycle
\* One partition + layout + export cycle on a fixed image and grid: the image
\* is loaded and the grid set, the user previews, picks the print settings
\* and exports.
InitCycle ==
    /\ variant \in Variants
    /\ imageData \in CycleImages
    /\ gridConfig \in [horizontal : 1..MaxGrid, vertical : 1..MaxGrid]
    /\ previewData = <<>>
    /\ selectedPreview = NULL
    /\ paperFormat = "a4"
    /\ orientation = "portrait"
    /\ showGuideLines = TRUE
    /\ decoding = {}
    /\ loading = {}
    /\ toast = "none"
    /\ pdf = NULL

NextCycle ==
    \/ Room(MaxInFlight) /\ GeneratePreview
    \/ \E c \in loading : GeneratePreviewResume(c)
    \/ \E value \in PaperFormat : SetPaperFormat(value)
    \/ \E value \in Orientation : SetOrientation(value)
    \/ SetShowGuideLines
    \/ GeneratePDF

SpecCycle == InitCycle /\ [][NextCycle]_vars

\* ------------------------------------------------------------ races
\* Uploads, grid edits and previews with up to MaxRace asynchronous
\* operations in flight, resolving in either order.
RaceTexts == { <<"1">>, <<"2">> }

NextRace ==
    \/ (imageData # NULL => Room(MaxRace)) /\ GeneratePreview
    \/ \E c \in loading : GeneratePreviewResume(c)
    \/ \E c \in loading : ImgLoadError(c)
    \/ \E file \in Files :
          (file.type \in AllowedTypes => Room(MaxRace)) /\ HandleFileSelect(file)
    \/ \E d \in decoding : ImgOnload(d)
    \/ \E d \in decoding : ImgOnerror(d)
    \/ \E text \in RaceTexts : OnChangeHorizontal(text)
    \/ \E text \in RaceTexts : OnChangeVertical(text)

SpecRace == Init /\ [][NextRace]_vars

\* The browser eventually delivers the event of every pending decode and
\* resumes every invocation whose load has succeeded.
FairRace ==
    /\ SpecRace
    /\ WF_vars(\E d \in decoding : ImgOnload(d))
    /\ WF_vars(\E d \in decoding : ImgOnerror(d))
    /\ WF_vars(\E c \in loading : GeneratePreviewResume(c))

\* ------------------------------------------------------------ claims
\* a step that resumes the suspended generatePreview invocation c
ResumeStep(c) ==
    /\ c \in loading
    /\ loading' = loading \ {c}
    /\ toast' = "success: preview generated"

\* C1: for every loaded image of W x H pixels and every grid with columns >= 1,
\* rows >= 1, W >= columns and H >= rows, a completed generatePreview stores a
\* tile list of exactly columns * rows tiles.
C1_TileCount ==
    [][\A c \in loading :
          ( /\ ResumeStep(c)
            /\ c.grid.horizontal >= 1 /\ c.grid.vertical >= 1
            /\ c.image.width >= c.grid.horizontal
            /\ c.image.height >= c.grid.vertical )
          => Len(previewData') = c.grid.horizontal * c.grid.vertical]_vars

\* a completed generatePreview of a 2 x 1 or 1 x 2 grid stored its two tiles
C1_Witness ==
    /\ toast = "success: preview generated"
    /\ Len(previewData) = 2
    /\ gridConfig.horizontal * gridConfig.vertical = 2

\* number of distinct columns among the cells the tiles were cut from
TileCols(tiles) == Cardinality({tiles[i].col : i \in DOMAIN tiles})

\* C2: tile ordering is always row-major: the tile stored at flat index i by
\* generatePreview is the crop of grid cell column = i % columns,
\* row = floor(i / columns), and generatePDF labels page i with exactly that
\* same column and row.
C2_RowMajor ==
    /\ \A i \in DOMAIN previewData :
          /\ previewData[i].col = (i - 1) % TileCols(previewData)
          /\ previewData[i].row = (i - 1) \div TileCols(previewData)
    /\ (pdf # NULL /\ variant # "first") =>
          \A k \in DOMAIN pdf.pages :
             /\ pdf.pages[k].caption.col = pdf.pages[k].tile.col + 1
             /\ pdf.pages[k].caption.row = pdf.pages[k].tile.row + 1

\* C3: for every image W x H and grid columns x rows (all >= 1), the source
\* rectangles used by generatePreview, taken as exact rationals, tile
\* [0,W) x [0,H) with no gap and no overlap: one rectangle per cell, every tile
\* of the same piece size, the right edge of each rectangle equal to the left
\* edge of its right neighbour, the bottom edge equal to the top edge of the
\* one below, the first column/row starting at 0 and the last ending exactly
\* at W/H; 1000 x 500 with grid 2 x 1 gives (0,0,500,500) and (500,0,500,500).
C3_Tiling ==
    Len(previewData) > 0 =>
      LET t == previewData
          c == gridConfig.horizontal
          r == gridConfig.vertical
          W == imageData.width
          H == imageData.height
      IN  /\ Len(t) = c * r
          /\ {<<t[i].col, t[i].row>> : i \in DOMAIN t} = (0..(c - 1)) \X (0..(r - 1))
          /\ \A i \in DOMAIN t :
                /\ t[i].sw = Rat(W, c) /\ t[i].sh = Rat(H, r)
                /\ t[i].col = 0 => t[i].sx = RInt(0)
                /\ t[i].row = 0 => t[i].sy = RInt(0)
                /\ t[i].col = c - 1 => RAdd(t[i].sx, t[i].sw) = RInt(W)
                /\ t[i].row = r - 1 => RAdd(t[i].sy, t[i].sh) = RInt(H)
          /\ \A i, j \in DOMAIN t :
                /\ (t[j].row = t[i].row /\ t[j].col = t[i].col + 1)
                      => (RAdd(t[i].sx, t[i].sw) = t[j].sx /\ t[i].sy = t[j].sy)
                /\ (t[j].col = t[i].col /\ t[j].row = t[i].row + 1)
                      => (RAdd(t[i].sy, t[i].sh) = t[j].sy /\ t[i].sx = t[j].sx)
          /\ (W = 1000 /\ H = 500 /\ c = 2 /\ r = 1) =>
                /\ <<t[1].sx, t[1].sy, t[1].sw, t[1].sh>>
                      = <<RInt(0), RInt(0), RInt(500), RInt(500)>>
                /\ <<t[2].sx, t[2].sy, t[2].sw, t[2].sh>>
                      = <<RInt(500), RInt(0), RInt(500), RInt(500)>>

\* a 1001 x 500 image was cut into 2 x 2 pieces of 500.5 x 250 pixels
C3_Witness ==
    /\ Len(previewData) = 4
    /\ imageData.width = 1001
    /\ previewData[4].sx = Rat(1001, 2)
    /\ previewData[4].sy = RInt(250)

\* the pages of the document the last step saved
Pages == IF pdf = NULL THEN {} ELSE {pdf.pages[k] : k \in DOMAIN pdf.pages}

FillsWidth(p) == p.imgWidth = RInt(p.maxWidth)
FillsHeight(p) == p.imgHeight = RInt(p.budget)

\* C4 as stated: for every tile aspect ratio > 0 and every drawable area, the
\* layout computed in generatePDF satisfies exactly one of
\* imageWidth == maxWidth or imageHeight == maxHeight (the height budget of
\* the drawable area), in each of the layout variants.
C4_ExactlyOne ==
    \A p \in Pages :
       RGt(p.aspectRatio, RInt(0)) => (FillsWidth(p) /\ ~FillsHeight(p))
                                      \/ (~FillsWidth(p) /\ FillsHeight(p))

\* C4 as amended: for every tile aspect ratio > 0 and every drawable area, the
\* layout computed in generatePDF fills the width (imageWidth == maxWidth) or
\* the height budget (imageHeight == budget, the height the variant's
\* height-constrained branch assigns), in each of the layout variants; it fills
\* both exactly when the aspect ratio equals maxWidth / budget; there is no
\* third case.
C4_AtLeastOne ==
    \A p \in Pages :
       RGt(p.aspectRatio, RInt(0)) =>
          /\ FillsWidth(p) \/ FillsHeight(p)
          /\ (FillsWidth(p) /\ FillsHeight(p))
                <=> (p.aspectRatio = Rat(p.maxWidth, p.budget))
          /\ p.branch = "width" => FillsWidth(p)
          /\ p.branch = "height" => FillsHeight(p)

\* an export in the captioned variant whose tiles have exactly the drawable
\* ratio 180 : 242 of an A4 portrait page: the image fills width and height
C4_Witness ==
    /\ variant = "guides"
    /\ \E p \in Pages :
          /\ p.aspectRatio = Rat(180, 242)
          /\ FillsWidth(p) /\ FillsHeight(p)

\* C5: aspect ratio is preserved by the layout: for every tile aspect ratio > 0
\* and every drawable area, the placed image satisfies
\* imageWidth * tileHeight == imageHeight * tileWidth (exact rationals), tile
\* width and height being the real-valued piece size, in both the
\* width-constrained and the height-constrained branch.
C5_AspectPreserved ==
    \A p \in Pages :
       RGt(p.aspectRatio, RInt(0)) =>
          /\ RMul(p.imgWidth, p.tile.sh) = RMul(p.imgHeight, p.tile.sw)
          /\ RDiv(p.imgWidth, p.imgHeight) = p.aspectRatio

\* an export laid out in the width-constrained branch with a fractional height
C5_Witness ==
    \E p \in Pages :
       /\ p.branch = "width"
       /\ p.tile.sw = Rat(1001, 2)
       /\ p.imgHeight[2] # 1

\* C6: for every page of every export, imageX + imageWidth/2 == pageWidth/2
\* (the image is horizontally centred on the page), and in the centered variant
\* also imageY + imageHeight/2 == pageHeight/2.
C6_Centered ==
    \A p \in Pages :
       /\ RAdd(p.x, RDiv(p.imgWidth, RInt(2))) = Rat(p.pageWidth, 2)
       /\ variant = "centered" =>
             RAdd(p.y, RDiv(p.imgHeight, RInt(2))) = Rat(p.pageHeight, 2)

\* an export of the centered variant placed an image narrower than the page
C6_Witness ==
    /\ variant = "centered"
    /\ \E p \in Pages : RGt(p.x, RInt(5)) /\ RGt(p.imgWidth, RInt(0))

\* C7: any change of the grid configuration invalidates previously generated
\* tiles: generatePDF never builds a document from a tile list that was
\* generated under a grid different from the grid configuration in effect at
\* the export (the tile count equals current columns * rows when an export
\* runs).
C7_NoStaleExport ==
    pdf # NULL =>
       /\ Len(pdf.pages) = gridConfig.horizontal * gridConfig.vertical
       /\ \A p \in Pages :
             /\ p.tile.sw = Rat(p.tile.image.width, gridConfig.horizontal)
             /\ p.tile.sh = Rat(p.tile.image.height, gridConfig.vertical)

ErrorToasts == {"error: unsupported format", "error: generate the preview first"}

NonPositive(grid) == grid.horizontal <= 0 \/ grid.vertical <= 0

\* C8: if no image is loaded or the grid has a non-positive dimension,
\* generatePreview does not execute the partition: it produces no tile list,
\* leaves previewData unchanged, reports no success, and signals an
\* InvalidInput condition (error notification) to the caller.
C8_RejectInvalid ==
    [][ /\ (GeneratePreview /\ (imageData = NULL \/ NonPositive(gridConfig)))
           => (loading' = loading /\ toast' \in ErrorToasts)
        /\ \A c \in loading :
              (loading' = loading \ {c} /\ NonPositive(c.grid))
              => (previewData' = previewData /\ toast' \in ErrorToasts) ]_vars

\* C9: in every reachable state gridConfig.horizontal and gridConfig.vertical
\* are integers >= 1 and <= 10, whatever text the user enters.
C9_GridInRange ==
    /\ gridConfig.horizontal \in 1..10
    /\ gridConfig.vertical \in 1..10

\* C10: in no reachable state does generatePDF place an image using an aspect
\* ratio <= 0 or with a non-positive image width or height.
C10_PositiveLayout ==
    \A p \in Pages :
       /\ RGt(p.aspectRatio, RInt(0))
       /\ RGt(p.imgWidth, RInt(0))
       /\ RGt(p.imgHeight, RInt(0))

\* C11: if the image fails to load (during the upload in handleFileSelect, or
\* during the load generatePreview awaits), the failure is eventually surfaced
\* to the user by an error notification and no tiles are produced; the
\* operation does not stay pending forever.
C11_DecodeFailure ==
    /\ (\E d \in decoding : ~d.file.decodes) ~> (toast \in ErrorToasts)
    /\ (\E c \in loading : c.stalled) ~> (toast \in ErrorToasts)
    /\ (\E c \in loading : c.stalled) ~> (\A c \in loading : ~c.stalled)
    /\ [][(\E d \in decoding : ~d.file.decodes /\ decoding' = decoding \ {d})
             => previewData' = previewData]_vars

\* C12: last write wins for uploads: if upload B is started while the decode
\* of an earlier upload A is still in flight, the result of A is discarded
\* when it resolves, so that once both decodes have resolved imageData is B's
\* image whichever decode completes first. Stated for the step that resolves
\* the last pending decode: if it is one a later upload has superseded,
\* imageData keeps the later upload's image.
C12_LastUploadWins ==
    [][\A d \in decoding :
          (d.superseded /\ decoding' = decoding \ {d} /\ decoding' = {})
          => imageData' = imageData]_vars

\* C13: last write wins for previews: if the grid (or image) is changed and
\* generatePreview is invoked again while an earlier generatePreview is still
\* awaiting its image load, the earlier invocation's result is discarded, so
\* that once both have resolved previewData holds the tiles of the later
\* invocation, whichever load resolves first. Stated for the step that
\* resumes the last suspended invocation: if it is one a later invocation has
\* superseded, previewData keeps the later invocation's tiles.
C13_LastPreviewWins ==
    [][\A c \in loading :
          (c.superseded /\ loading' = loading \ {c} /\ loading' = {})
          => previewData' = previewData]_vars

\* C14: export pagination: generatePDF lays out each tile once, in tile-list
\* order, starting a new page before every tile except the first, so the
\* document has exactly as many pages as there are tiles and page k (1-based)
\* carries tile k-1.
C14_Pagination ==
    pdf # NULL =>
       /\ pdf.sheets = Len(previewData)
       /\ Len(pdf.pages) = Len(previewData)
       /\ \A k \in DOMAIN pdf.pages :
             /\ pdf.pages[k].index = k - 1
             /\ pdf.pages[k].sheet = k
             /\ pdf.pages[k].tile = previewData[k]
             /\ pdf.pages[k].newPage = (k > 1)

\* an export of four tiles: the fourth tile is drawn on the fourth sheet
C14_Witness ==
    /\ pdf # NULL
    /\ Len(previewData) = 4
    /\ pdf.sheets = 4
    /\ pdf.pages[4].tile.col = 1 /\ pdf.pages[4].tile.row = 1

\* C15: a file whose type is outside the allow-list {image/jpeg, image/png,
\* image/webp} is rejected by handleFileSelect before any computation: an
\* error notification is issued, no decode is started, and imageData,
\* previewData, gridConfig and selectedPreview are left unchanged.
C15_RejectType ==
    [][\A file \in Files :
          (file.type \notin {"image/jpeg", "image/png", "image/webp"}
             /\ HandleFileSelect(file))
          => /\ toast' = "error: unsupported format"
             /\ decoding' = decoding
             /\ imageData' = imageData
             /\ previewData' = previewData
             /\ gridConfig' = gridConfig
             /\ selectedPreview' = selectedPreview]_vars

\* a GIF was picked while an image was loaded and a decode was in flight
C15_Witness ==
    /\ toast = "error: unsupported format"
    /\ imageData # NULL
    /\ decoding # {}

\* C16: captions: on every exported page i (0-based) the caption states page
\* i+1 of N, where N is the number of exported tiles, and grid position column
\* (i % columns)+1, row floor(i / columns)+1; in every export the labelled
\* column lies in 1..columns, the labelled row in 1..rows, and no two pages
\* carry the same (column, row) label. (The first revision captions the page
\* number only.)
C16_Captions ==
    pdf # NULL =>
       LET columns == gridConfig.horizontal
           rows    == gridConfig.vertical
           P       == pdf.pages
       IN  /\ \A k \in DOMAIN P :
                 /\ P[k].caption.page = k
                 /\ P[k].caption.total = Len(previewData)
           /\ variant # "first" =>
                 /\ \A k \in DOMAIN P :
                       /\ P[k].caption.col \in 1..columns
                       /\ P[k].caption.row \in 1..rows
                       /\ P[k].caption.col = ((k - 1) % columns) + 1
                       /\ P[k].caption.row = ((k - 1) \div columns) + 1
                 /\ \A j, k \in DOMAIN P :
                       (P[j].caption.col = P[k].caption.col
                          /\ P[j].caption.row = P[k].caption.row) => j = k

RMin(a, b) == IF RLe(a, b) THEN a ELSE b
RMax(a, b) == IF RLe(a, b) THEN b ELSE a

\* some point of the axis-parallel segment l lies on or inside the rectangle r
Touches(l, r) ==
    /\ RLe(r.x, RMax(l.x1, l.x2)) /\ RLe(RMin(l.x1, l.x2), RAdd(r.x, r.w))
    /\ RLe(r.y, RMax(l.y1, l.y2)) /\ RLe(RMin(l.y1, l.y2), RAdd(r.y, r.h))

\* C17: when guide lines are enabled, the four L-shaped corner crop marks are
\* positioned just outside each corner of the outer bounding rectangle (the
\* rectangle 3mm around the image) and do not touch it: no point of any
\* crop-mark segment lies on or inside that rectangle.
C17_MarksClear ==
    \A p \in Pages :
       (variant = "guides" /\ showGuideLines
          /\ RGt(p.imgWidth, RInt(0)) /\ RGt(p.imgHeight, RInt(0)))
       => /\ Len(p.guides.marks) = 8
          /\ \A m \in DOMAIN p.guides.marks :
                ~Touches(p.guides.marks[m], p.guides.rect)

\* the cataloged (width, height) in portrait, the swapped pair in landscape
Effective(format, orient) ==
    IF orient = "landscape"
    THEN <<PAPER_FORMATS[format].height, PAPER_FORMATS[format].width>>
    ELSE <<PAPER_FORMATS[format].width, PAPER_FORMATS[format].height>>

\* C18: orientation: for each of the four catalog paper formats, the effective
\* page (width, height) used for layout and preview is the cataloged
\* (width, height) in portrait and the swapped pair (height, width) in
\* landscape, so a landscape page is always wider than tall and a portrait
\* page taller than wide.
C18_Orientation ==
    LET preview == PreviewPage(paperFormat, orientation)
    IN  /\ <<preview.width, preview.height>> = Effective(paperFormat, orientation)
        /\ (orientation = "landscape") <=> (preview.width > preview.height)
        /\ \A p \in Pages :
              /\ <<p.pageWidth, p.pageHeight>> = Effective(paperFormat, orientation)
              /\ (orientation = "landscape") <=> (p.pageWidth > p.pageHeight)
              /\ (orientation = "portrait") <=> (p.pageHeight > p.pageWidth)

\* an export on a landscape Tabloid page, 432 x 279 mm
C18_Witness ==
    /\ paperFormat = "tabloid"
    /\ orientation = "landscape"
    /\ \E p \in Pages : p.pageWidth = 432 /\ p.pageHeight = 279

\* floor and ceiling of n / d for n >= 0, d >= 1
FloorDiv(n, d) == n \div d
CeilDiv(n, d) == (n + d - 1) \div d

\* C19: for every image width W and column count c with W >= c >= 1 (likewise
\* height and rows), every rendered tile raster has an integer width equal to
\* floor(W/c) or ceil(W/c), all tiles being cut with the same real-valued
\* piece width W/c; for 1001 x 500 with grid 2 x 1 the piece width is 500.5
\* for both tiles, each rendered width is 500 or 501, and the two widths sum
\* to at least 1000 and at most 1002.
C19_RasterSize ==
    Len(previewData) > 0 =>
      LET t == previewData
          c == gridConfig.horizontal
          r == gridConfig.vertical
          W == imageData.width
          H == imageData.height
      IN  /\ (W >= c /\ c >= 1) =>
                \A i \in DOMAIN t :
                   /\ t[i].width \in {FloorDiv(W, c), CeilDiv(W, c)}
                   /\ t[i].sw = Rat(W, c)
          /\ (H >= r /\ r >= 1) =>
                \A i \in DOMAIN t :
                   /\ t[i].height \in {FloorDiv(H, r), CeilDiv(H, r)}
                   /\ t[i].sh = Rat(H, r)
          /\ (W = 1001 /\ H = 500 /\ c = 2 /\ r = 1) =>
                /\ Len(t) = 2
                /\ t[1].sw = <<1001, 2>> /\ t[2].sw = <<1001, 2>>
                /\ t[1].width \in {500, 501} /\ t[2].width \in {500, 501}
                /\ t[1].width + t[2].width \in 1000..1002

\* the 1001 x 500 image was cut at grid 2 x 1 into two rasters 500 pixels wide
C19_Witness ==
    /\ Len(previewData) = 2
    /\ imageData.width = 1001
    /\ gridConfig = [horizontal |-> 2, vertical |-> 1]
    /\ previewData[1].width = 500 /\ previewData[2].width = 500

\* C20: in the captioned variant the drawable area is
\* maxWidth = pageWidth - 2*15 and availableHeight = pageHeight - 2*15 - 25;
\* for A4 portrait (210 x 297 mm) and tile aspect ratio 2.0 this gives
\* maxWidth = 180, availableHeight = 242, the width-constrained branch is
\* taken, and the image is placed with imageWidth = 180 and imageHeight = 90.
C20_DrawableArea ==
    \A p \in Pages :
       variant = "guides" =>
          /\ p.maxWidth = p.pageWidth - 2 * 15
          /\ p.budget = p.pageHeight - 2 * 15 - 25
          /\ (p.pageWidth = 210 /\ p.pageHeight = 297 /\ p.aspectRatio = RInt(2)) =>
                /\ p.maxWidth = 180
                /\ p.budget = 242
                /\ p.branch = "width"
                /\ p.imgWidth = RInt(180)
                /\ p.imgHeight = RInt(90)

\* an export of the captioned variant on A4 portrait with tiles of ratio 2
C20_Witness ==
    /\ variant = "guides"
    /\ paperFormat = "a4" /\ orientation = "portrait"
    /\ \E p \in Pages : p.aspectRatio = RInt(2) /\ p.imgHeight = RInt(90)

\* C21: page layout is idempotent and has no hidden state: two generatePDF
\* exports run from the same image dimensions, grid, tile list, paper format,
\* orientation and guide toggle yield identical per-page placements, guide
\* geometry and captions, and an export leaves imageData, gridConfig,
\* previewData and selectedPreview unchanged. Stated for an export step: it
\* changes none of the four, and when the step before it was an export too
\* (so that both ran from the same inputs) it saves the same document.
C21_Idempotent ==
    [][pdf' # NULL =>
          /\ imageData' = imageData
          /\ gridConfig' = gridConfig
          /\ previewData' = previewData
          /\ selectedPreview' = selectedPreview
          /\ pdf # NULL => pdf' = pdf]_vars

\* an export of four tiles with guide lines drawn and a tile selected
C21_Witness ==
    /\ pdf # NULL
    /\ Len(pdf.pages) = 4
    /\ selectedPreview # NULL
    /\ variant = "guides" /\ showGuideLines

\* poster-<cols>x<rows>-<format>-<orientation>.pdf
PatternName(grid, format, orient) ==
    <<"poster-">> \o NumberText(grid.horizontal) \o <<"x">>
       \o NumberText(grid.vertical) \o <<"-", format, "-", orient, ".pdf">>

\* poster-<cols>x<rows>.pdf
ShortName(grid) ==
    <<"poster-">> \o NumberText(grid.horizontal) \o <<"x">>
       \o NumberText(grid.vertical) \o <<".pdf">>

\* the grid, format and orientation an export of revision v can run with
NameInputs(v) ==
    [ grid   : [horizontal : (-2..12) \ {0}, vertical : (-2..12) \ {0}],
      format : IF v = "first" THEN {"a4"} ELSE PaperFormat,
      orient : IF v = "first" THEN {"portrait"} ELSE Orientation ]

\* no export with other inputs would get the name of the document just saved
NameIsUnique ==
    \A b \in NameInputs(variant) :
       Filename(variant, b.grid, b.format, b.orient) = pdf.filename
       => b = [grid |-> gridConfig, format |-> paperFormat, orient |-> orientation]

\* C22 as stated: the exported document is named deterministically from grid
\* shape, paper format and orientation, as
\* poster-<cols>x<rows>-<format>-<orientation>.pdf with the values in effect
\* for that export: exports with equal grid, format and orientation get the
\* same name, and exports differing in any of the three get different names,
\* in every layout variant.
C22_PatternEverywhere ==
    pdf # NULL =>
       /\ pdf.filename = PatternName(gridConfig, paperFormat, orientation)
       /\ NameIsUnique

\* C22 as amended: the exported document is named deterministically from the
\* values in effect for that export: poster-<cols>x<rows>-<format>-<orientation>.pdf
\* in the captioned and centered variants, poster-<cols>x<rows>.pdf in the
\* first variant (whose page is always A4 portrait); in every variant exports
\* with equal grid, format and orientation get the same name and exports
\* differing in any of the three get different names.
C22_Filename ==
    pdf # NULL =>
       /\ pdf.filename = IF variant = "first" THEN ShortName(gridConfig)
                         ELSE PatternName(gridConfig, paperFormat, orientation)
       /\ NameIsUnique

\* the centered variant saved poster-2x1-a3-landscape.pdf
C22_Witness ==
    /\ pdf # NULL
    /\ variant = "centered"
    /\ pdf.filename = <<"poster-", "2", "x", "1", "-", "a3", "-", "landscape", ".pdf">>

\* C23: after any sequence of uploads, grid edits, previews and exports, the
\* tiles placed by generatePDF were cut from the image currently held in
\* imageData: the aspect ratio used for layout,
\* (imageData.width / columns) / (imageData.height / rows), equals the pixel
\* aspect ratio of the tiles actually placed on the pages (a new upload never
\* leaves tiles of the previous image exportable). The ratios are compared for
\* tiles cut under the grid in effect, so that only the image can differ.
C23_TilesOfCurrentImage ==
    \A p \in Pages :
       /\ p.tile.image = imageData
       /\ ( /\ p.tile.sw = Rat(p.tile.image.width, gridConfig.horizontal)
            /\ p.tile.sh = Rat(p.tile.image.height, gridConfig.vertical) )
          => p.aspectRatio = RDiv(p.tile.sw, p.tile.sh)

\* the placed image lies entirely within the page
WithinPage(p) ==
    /\ RLe(RInt(0), p.x)
    /\ RLe(RAdd(p.x, p.imgWidth), RInt(p.pageWidth))
    /\ RLe(RInt(0), p.y)
    /\ RLe(RAdd(p.y, p.imgHeight), RInt(p.pageHeight))

\* C24: in every layout variant and for every tile aspect ratio > 0, paper
\* format and orientation, the placed image lies entirely within the page:
\* 0 <= imageX, imageX + imageWidth <= pageWidth, 0 <= imageY and
\* imageY + imageHeight <= pageHeight.
C24_WithinPage ==
    \A p \in Pages : RGt(p.aspectRatio, RInt(0)) => WithinPage(p)

\* C25: in every reachable state, the selected preview index is either null
\* or a valid index of the current tile list
\* (0 <= selectedPreview < previewData.length), including after the preview
\* is regenerated with a smaller grid.
C25_SelectionValid ==
    \/ selectedPreview = NULL
    \/ selectedPreview.index \in 0..(Len(previewData) - 1)

\* C26: in every reachable state, a non-empty tile list implies an image is
\* loaded (previewData.length > 0 => imageData # null), so the non-null
\* assertion on imageData inside generatePDF never fails whenever an export
\* gets past its empty-preview guard.
C26_ImageLoaded ==
    /\ Len(previewData) > 0 => imageData # NULL
    /\ \A c \in loading : c.image # NULL

\* an export got past the empty-preview guard and saved its document
C26_Witness ==
    /\ pdf # NULL
    /\ Len(previewData) > 0
    /\ imageData # NULL

\* C27: generatePDF invoked while the tile list is empty issues an error
\* notification and produces no document (no page is laid out, nothing is
\* saved), leaving all state unchanged; a document is saved only by an export
\* that laid out at least one tile.
C27_EmptyExport ==
    [][ /\ (GeneratePDF /\ Len(previewData) = 0)
           => /\ toast' = "error: generate the preview first"
              /\ pdf' = NULL
              /\ UNCHANGED <<imageData, gridConfig, previewData, selectedPreview,
                             paperFormat, orientation, showGuideLines,
                             decoding, loading>>
        /\ pdf' # NULL
           => /\ Len(previewData) >= 1
              /\ Len(pdf'.pages) = Len(previewData)
              /\ pdf'.sheets >= 1 ]_vars

\* an export was refused although an image is loaded: its tile list is empty
C27_Witness ==
    /\ toast = "error: generate the preview first"
    /\ pdf = NULL
    /\ imageData # NULL
    /\ previewData = <<>>

====
